---- MODULE Spec2Model ----
(***************************************************************************)
(* Model of warehouse_agent.py: an in-memory inventory ledger, the tool    *)
(* executor that applies the backend's tool calls to it, the two-call      *)
(* dialogue of run_conversation, and main's read / trim / answer loop.     *)
(***************************************************************************)
EXTENDS Integers, Sequences, FiniteSets, TLC

VARIABLES
    inventory,           \* the module-level dict  item_name -> quantity
    messages,            \* main's transcript (list of message dicts)
    pc,                  \* where main is: "input", "call1", "exec", "call2", "return", "stopped"
    assistant_response,  \* value run_conversation returned to main
    exit_cause,          \* why the process stopped ("" while it runs)
    backend_failure,     \* exception class the backend raised in this turn ("" if none)
    user_turns,          \* user utterances read so far
    calls_made,          \* tool calls issued so far (source of fresh tool_call ids)
    tool_message,        \* the tool message _execute_tool_call built last in this turn
    tool_calls,          \* run_conversation's local: the batch the first response asked for
    executed,            \* how many calls of tool_calls the for-loop has executed
    tool_call,           \* the for-loop's variable: the call executed last, with its argument string
    call_log,            \* name in the "[call]" line the last executor call made a ledger function print ("" if none)
    backend_calls,       \* client.chat.completions.create calls made in this user turn
    second_tool_calls,   \* tool_calls carried by this turn's second response
    function_response,   \* SpecLedger: value the last directly called ledger function returned
    last_call,           \* SpecLedger: the last direct call  [fn, item_name, quantity]
    added,               \* SpecLedger: per item, sum of the quantities passed to add_item
    removed,             \* SpecLedger: per item, sum of the quantities taken by successful remove_item
    only_positive,       \* SpecLedger: every call so far had quantity > 0
    ledger_ops           \* SpecLedger: direct calls made so far

vars == <<inventory, messages, pc, assistant_response, exit_cause, backend_failure,
          user_turns, calls_made, tool_message, tool_calls, executed, tool_call, call_log,
          backend_calls, second_tool_calls, function_response, last_call, added, removed,
          only_positive, ledger_ops>>

dialogueVars == <<messages, pc, assistant_response, exit_cause, backend_failure,
                  user_turns, calls_made, tool_message, tool_calls, executed, tool_call,
                  call_log, backend_calls, second_tool_calls>>

ledgerTestVars == <<function_response, last_call, added, removed, only_positive, ledger_ops>>

----------------------------------------------------------------------------
(* Bounds of the model *)

MaxUserTurns == 3
MaxCalls == 2
MaxBatch == 2
WindowUserTurns == 5
WindowCalls == 3
WindowBatch == 2
MaxLedgerOps == 5
MaxQty == 2

----------------------------------------------------------------------------
(* Program constants *)

MAX_HISTORY == 10

\* Names bound at module level when a function body runs.  RED is used by
\* run_conversation and main but never assigned.
ModuleGlobals == {"GREEN", "YELLOW", "GRAY", "RESET", "MAX_HISTORY"}

----------------------------------------------------------------------------
(* Python / JSON values that reach the ledger functions *)

JStr(s) == [t |-> "str", v |-> s]
JInt(n) == [t |-> "int", v |-> n]
JTrue == [t |-> "bool", v |-> 1]
JNull == [t |-> "null", v |-> 0]
Missing == [t |-> "missing", v |-> 0]

Apples == JStr("apples")
Pears == JStr("pears")

\* int and bool take part in + , - , < and == ; str and None raise TypeError.
IsNumber(q) == q.t \in {"int", "bool"}
NumberOf(q) == q.v

EmptyDict == [k \in {} |-> 0]

\* dict.get(key, 0)
DictGet(d, k) == IF k \in DOMAIN d THEN d[k] ELSE 0

\* d[k] = x
DictSet(d, k, x) == [j \in DOMAIN d \cup {k} |-> IF j = k THEN x ELSE d[j]]

\* del d[k]
DictDel(d, k) == [j \in DOMAIN d \ {k} |-> d[j]]

----------------------------------------------------------------------------
(* The JSON payloads the ledger functions return *)

NoItem == [t |-> "none", v |-> 0]

Payload(status, msg, item, qty, inv) ==
    [status |-> status, msg |-> msg, item |-> item, qty |-> qty, inventory |-> inv]

NoResponse == Payload("", "", NoItem, 0, EmptyDict)

\* What a call of a ledger function leaves behind: the dict, the returned
\* payload, and the exception it raised instead of returning ("" if none).
Outcome(inv, ret, exc) == [inventory |-> inv, ret |-> ret, exc |-> exc]

\* add_item storing the quantity passed instead of adding it to the stock.
add_item_overwrite(inv, item_name, quantity) ==
    IF ~IsNumber(quantity)
    THEN Outcome(inv, NoResponse, "TypeError")
    ELSE Outcome(DictSet(inv, item_name, NumberOf(quantity)),
                 Payload("success", "added", item_name, NumberOf(quantity), EmptyDict),
                 "")

\* remove_item taking what is there when the stock is short.
remove_item_clamped(inv, item_name, quantity) ==
    IF item_name \notin DOMAIN inv
    THEN Outcome(inv, Payload("error", "not_found", item_name, 0, EmptyDict), "")
    ELSE IF ~IsNumber(quantity)
    THEN Outcome(inv, NoResponse, "TypeError")
    ELSE LET left == inv[item_name] - NumberOf(quantity)
         IN  Outcome(IF left <= 0 THEN DictDel(inv, item_name)
                                  ELSE DictSet(inv, item_name, left),
                     Payload("success", "removed", item_name, NumberOf(quantity), EmptyDict),
                     "")

\* remove_item reading the stock with inventory.get(item_name, 0) and no
\* membership test.
remove_item_default_zero(inv, item_name, quantity) ==
    IF ~IsNumber(quantity)
    THEN Outcome(inv, NoResponse, "TypeError")
    ELSE IF DictGet(inv, item_name) < NumberOf(quantity)
    THEN Outcome(inv, Payload("error", "insufficient", item_name, DictGet(inv, item_name),
                              EmptyDict), "")
    ELSE LET left == DictGet(inv, item_name) - NumberOf(quantity)
         IN  Outcome(IF left = 0 THEN DictDel(inv, item_name)
                                 ELSE DictSet(inv, item_name, left),
                     Payload("success", "removed", item_name, NumberOf(quantity), EmptyDict),
                     "")

\* remove_item without the deletion of an entry that reached zero.
remove_item_keeps_zero(inv, item_name, quantity) ==
    IF item_name \notin DOMAIN inv
    THEN Outcome(inv, Payload("error", "not_found", item_name, 0, EmptyDict), "")
    ELSE IF ~IsNumber(quantity)
    THEN Outcome(inv, NoResponse, "TypeError")
    ELSE IF inv[item_name] < NumberOf(quantity)
    THEN Outcome(inv, Payload("error", "insufficient", item_name, inv[item_name], EmptyDict), "")
    ELSE Outcome(DictSet(inv, item_name, inv[item_name] - NumberOf(quantity)),
                 Payload("success", "removed", item_name, NumberOf(quantity), EmptyDict),
                 "")

add_item(inv, item_name, quantity) ==
    IF ~IsNumber(quantity)
    THEN Outcome(inv, NoResponse, "TypeError")
    ELSE Outcome(DictSet(inv, item_name, DictGet(inv, item_name) + NumberOf(quantity)),
                 Payload("success", "added", item_name, NumberOf(quantity), EmptyDict),
                 "")

remove_item(inv, item_name, quantity) ==
    IF item_name \notin DOMAIN inv
    THEN Outcome(inv, Payload("error", "not_found", item_name, 0, EmptyDict), "")
    ELSE IF ~IsNumber(quantity)
    THEN Outcome(inv, NoResponse, "TypeError")
    ELSE IF inv[item_name] < NumberOf(quantity)
    THEN Outcome(inv, Payload("error", "insufficient", item_name, inv[item_name], EmptyDict), "")
    ELSE LET left == inv[item_name] - NumberOf(quantity)
         IN  Outcome(IF left = 0 THEN DictDel(inv, item_name)
                                 ELSE DictSet(inv, item_name, left),
                     Payload("success", "removed", item_name, NumberOf(quantity), EmptyDict),
                     "")

\* json.dumps renders a dict key as a JSON string: a str key as it is, an
\* int key by its decimal digits.
JsonKey(k) == IF k.t = "int" /\ k.v = 5 THEN JStr("5") ELSE k

\* The object json.dumps writes for the dict d, as a mapping.
DumpsDict(d) ==
    [k \in {JsonKey(j) : j \in DOMAIN d} |-> d[CHOOSE j \in DOMAIN d : JsonKey(j) = k]]

\* get_inventory without the test for an empty dict.
get_inventory_no_marker(inv) ==
    Outcome(inv, Payload("success", "inventory", NoItem, 0, DumpsDict(inv)), "")

get_inventory(inv) ==
    IF DOMAIN inv = {}
    THEN Outcome(inv, Payload("success", "empty_marker", NoItem, 0, EmptyDict), "")
    ELSE Outcome(inv, Payload("success", "inventory", NoItem, 0, DumpsDict(inv)), "")

----------------------------------------------------------------------------
(* Exceptions: the classes raised in this program and their base classes *)

Bases(c) ==
    CASE c = "AuthenticationError" -> {"AuthenticationError", "APIError", "Exception"}
      [] c = "APIError"            -> {"APIError", "Exception"}
      [] c = "JSONDecodeError"     -> {"JSONDecodeError", "ValueError", "Exception"}
      [] c = "TypeError"           -> {"TypeError", "Exception"}
      [] c = "RecursionError"      -> {"RecursionError", "RuntimeError", "Exception"}
      [] c = "IndexError"          -> {"IndexError", "LookupError", "Exception"}
      [] c = "NameError"           -> {"NameError", "Exception"}
      [] OTHER                     -> {c}

\* The first except clause whose class the raised exception is an instance
\* of; "" when no clause catches it.
RECURSIVE FirstMatch(_, _)
FirstMatch(clauses, exc) ==
    IF clauses = <<>> THEN ""
    ELSE IF Head(clauses) \in Bases(exc) THEN Head(clauses)
    ELSE FirstMatch(Tail(clauses), exc)

\* Evaluating a module-level name in an f-string: NameError when unbound.
NameLookup(name) == IF name \in ModuleGlobals THEN "" ELSE "NameError"

----------------------------------------------------------------------------
(* Transcript.  A message keeps its role, the tool calls it asks for (id   *)
(* and function name), the id and name a tool result answers, and of its   *)
(* content: the payload's "status" for a tool result, the utterance's      *)
(* ordinal for a user line.  The whole payload of the tool message built   *)
(* last is kept in tool_message.                                           *)

NoneValue == "<None>"

Msg(role, content, calls, id, name, n) ==
    [role |-> role, content |-> content, tool_calls |-> calls,
     tool_call_id |-> id, name |-> name, n |-> n]

SystemMessage == Msg("system", "prompt", <<>>, 0, "", 0)
UserMessage(n) == Msg("user", "utterance", <<>>, 0, "", n)
AssistantText(content) == Msg("assistant", content, <<>>, 0, "", 0)
AssistantToolCalls(calls) == Msg("assistant", NoneValue, calls, 0, "", 0)
ToolMessage(id, name, content) == Msg("tool", content, <<>>, id, name, 0)

\* The dict of lines 134-138 with its content, as _execute_tool_call built it.
FullToolMessage(id, name, payload) ==
    [tool_call_id |-> id, role |-> "tool", name |-> name, content |-> payload]

NoToolMessage == FullToolMessage(0, "", NoResponse)

\* A truth test that takes only None for false.
TruthyUnlessNone(x) == x # NoneValue

\* bool(x) of what run_conversation returns: None and "" are falsy.
Truthy(x) == x \notin {NoneValue, ""}

\* s[-n:]
LastN(s, n) ==
    IF n = 0 \/ n >= Len(s) THEN s ELSE SubSeq(s, Len(s) - n + 1, Len(s))

\* A window of MAX_HISTORY messages with the system message counted in.
TrimHistoryCountingSystem(msgs) ==
    IF Len(msgs) > MAX_HISTORY
    THEN <<msgs[1]>> \o LastN(msgs, MAX_HISTORY - 1)
    ELSE msgs

\* main's window: the system message plus the last MAX_HISTORY messages.
TrimHistory(msgs) ==
    IF Len(msgs) > MAX_HISTORY + 1
    THEN <<msgs[1]>> \o LastN(msgs, MAX_HISTORY)
    ELSE msgs

----------------------------------------------------------------------------
(* The tool executor *)

AvailableFunctions == {"add_item", "remove_item", "get_inventory"}

\* tool_call.function.arguments, by what json.loads makes of it: "object"
\* (a dict with the keys present), "array" (valid JSON, not a dict),
\* "invalid" (not JSON), "deep" (nesting beyond the recursion limit).
Arguments(parse, item_name, quantity, extra) ==
    [parse |-> parse, item_name |-> item_name, quantity |-> quantity, extra |-> extra]

ObjectArgs(item_name, quantity) == Arguments("object", item_name, quantity, FALSE)

\* json.loads(arguments): the exception it raises, "" when it returns.
JsonLoads(arguments) ==
    CASE arguments.parse = "invalid" -> "JSONDecodeError"
      [] arguments.parse = "deep"    -> "RecursionError"
      [] OTHER                       -> ""

\* function_to_call(**function_args): binding the dict's keys to the
\* function's parameters.  TypeError for a non-mapping, a missing or an
\* unexpected keyword.
BindArguments(name, arguments) ==
    IF arguments.parse # "object" THEN "TypeError"
    ELSE IF arguments.extra THEN "TypeError"
    ELSE IF name = "get_inventory"
         THEN IF arguments.item_name = Missing /\ arguments.quantity = Missing
              THEN "" ELSE "TypeError"
         ELSE IF arguments.item_name = Missing \/ arguments.quantity = Missing
              THEN "TypeError" ELSE ""

\* The "type" the tools catalog declares for each parameter of a function
\* ("properties"); get_inventory declares none.
ToolProperties(name) ==
    IF name = "get_inventory" THEN [p \in {} |-> ""]
    ELSE [p \in {"item_name", "quantity"} |->
             IF p = "item_name" THEN "string" ELSE "integer"]

\* The catalog's "required" list.
ToolRequired(name) == IF name = "get_inventory" THEN {} ELSE {"item_name", "quantity"}

\* JSON type of a parsed value.
JsonType(x) ==
    CASE x.t = "str"  -> "string"
      [] x.t = "int"  -> "integer"
      [] x.t = "bool" -> "boolean"
      [] OTHER        -> "null"

\* The parsed arguments are an object with every required parameter, no
\* parameter the catalog does not declare, and each value of the declared type.
MatchesSchema(name, arguments) ==
    /\ arguments.parse = "object"
    /\ ~arguments.extra
    /\ \A p \in {"item_name", "quantity"} :
          IF arguments[p] = Missing
          THEN p \notin ToolRequired(name)
          ELSE /\ p \in DOMAIN ToolProperties(name)
               /\ JsonType(arguments[p]) = ToolProperties(name)[p]

\* Lines 149-152: the body of the try block.
TryBody(name, arguments, inv) ==
    IF JsonLoads(arguments) # "" THEN Outcome(inv, NoResponse, JsonLoads(arguments))
    ELSE IF BindArguments(name, arguments) # ""
    THEN Outcome(inv, NoResponse, BindArguments(name, arguments))
    ELSE CASE name = "add_item"    -> add_item(inv, arguments.item_name, arguments.quantity)
           [] name = "remove_item" -> remove_item(inv, arguments.item_name, arguments.quantity)
           [] OTHER                -> get_inventory(inv)

\* An executor that catches the JSON error only.
ExecutorExceptClausesJsonOnly == <<"JSONDecodeError">>

\* An executor whose catch-all clause comes first.
ExecutorExceptClausesCatchAllFirst == <<"Exception", "JSONDecodeError", "TypeError">>

ExecutorExceptClauses == <<"JSONDecodeError", "TypeError", "Exception">>

\* The error payload each except clause builds.  Where the message embeds
\* function_name, the item slot carries it.
ExecutorErrorPayload(clause, name) ==
    CASE clause = "JSONDecodeError" -> Payload("error", "bad_json", NoItem, 0, EmptyDict)
      [] clause = "TypeError"       -> Payload("error", "bad_arguments", JStr(name), 0, EmptyDict)
      [] OTHER                      -> Payload("error", "execution_error", JStr(name), 0, EmptyDict)

\* Lines 141-144: the payload for a name that is not in available_functions;
\* its message embeds function_name.
UnknownFunctionPayload(name) == Payload("error", "unknown_function", JStr(name), 0, EmptyDict)

\* The ledger function whose body started to run (it prints its "[call]"
\* line first, lines 40, 48, 65) in a call of the executor; "" if none did.
LedgerCallLogged(name, arguments) ==
    IF /\ name \in AvailableFunctions
       /\ JsonLoads(arguments) = ""
       /\ BindArguments(name, arguments) = ""
    THEN name ELSE ""

\* An executor that parses the arguments before it looks the name up.
ExecuteToolCallParseFirst(id, name, arguments, inv, msgs) ==
    IF JsonLoads(arguments) = "JSONDecodeError"
    THEN [inventory |-> inv, content |-> ExecutorErrorPayload("JSONDecodeError", name),
          exc |-> "", log |-> "",
          messages |-> Append(msgs, ToolMessage(id, name, "error"))]
    ELSE IF name \notin AvailableFunctions
    THEN [inventory |-> inv, content |-> UnknownFunctionPayload(name), exc |-> "", log |-> "",
          messages |-> Append(msgs, ToolMessage(id, name, "error"))]
    ELSE LET out == TryBody(name, arguments, inv)
             clause == FirstMatch(ExecutorExceptClauses, out.exc)
         IN  IF out.exc = ""
             THEN [inventory |-> out.inventory, content |-> out.ret, exc |-> "",
                   log |-> LedgerCallLogged(name, arguments),
                   messages |-> Append(msgs, ToolMessage(id, name, out.ret.status))]
             ELSE [inventory |-> out.inventory, content |-> ExecutorErrorPayload(clause, name),
                   exc |-> "", log |-> LedgerCallLogged(name, arguments),
                   messages |-> Append(msgs, ToolMessage(id, name, "error"))]

\* _execute_tool_call(tool_call, messages) on the dict inv: the dict and the
\* transcript it leaves, the payload it put in tool_message, and the
\* exception it lets through ("" if none).
ExecuteToolCall(id, name, arguments, inv, msgs) ==
    IF name \notin AvailableFunctions
    THEN LET payload == UnknownFunctionPayload(name)
         IN  [inventory |-> inv, content |-> payload, exc |-> "", log |-> "",
              messages |-> Append(msgs, ToolMessage(id, name, payload.status))]
    ELSE LET out == TryBody(name, arguments, inv)
             clause == FirstMatch(ExecutorExceptClauses, out.exc)
         IN  IF out.exc = ""
             THEN [inventory |-> out.inventory, content |-> out.ret, exc |-> "",
                   log |-> LedgerCallLogged(name, arguments),
                   messages |-> Append(msgs, ToolMessage(id, name, out.ret.status))]
             ELSE IF clause # ""
             THEN [inventory |-> out.inventory, content |-> ExecutorErrorPayload(clause, name),
                   exc |-> "", log |-> LedgerCallLogged(name, arguments),
                   messages |-> Append(msgs, ToolMessage(id, name,
                                                         ExecutorErrorPayload(clause, name).status))]
             ELSE [inventory |-> out.inventory, content |-> NoResponse, exc |-> out.exc,
                   log |-> LedgerCallLogged(name, arguments),
                   messages |-> msgs]

----------------------------------------------------------------------------
(* SpecLedger: the three ledger functions called directly, as typed         *)
(* (item_name: str, quantity: int), in any order, from the empty dict.     *)

\* No tool call executed yet in this call of run_conversation.
NoToolCall == [id |-> 0, name |-> "", arguments |-> Arguments("", Missing, Missing, FALSE)]

Items == {Apples, Pears}
Quantities == {JInt(n) : n \in -1 .. MaxQty}

ZeroPerItem == [i \in Items |-> 0]

Init ==
    /\ inventory = EmptyDict
    /\ messages = <<SystemMessage>>
    /\ pc = "input"
    /\ assistant_response = ""
    /\ exit_cause = ""
    /\ backend_failure = ""
    /\ user_turns = 0
    /\ calls_made = 0
    /\ tool_message = NoToolMessage
    /\ tool_calls = <<>>
    /\ executed = 0
    /\ tool_call = NoToolCall
    /\ call_log = ""
    /\ backend_calls = 0
    /\ second_tool_calls = <<>>
    /\ function_response = NoResponse
    /\ last_call = [fn |-> "", item_name |-> NoItem, quantity |-> 0]
    /\ added = ZeroPerItem
    /\ removed = ZeroPerItem
    /\ only_positive = TRUE
    /\ ledger_ops = 0

CallAddItem(item, q) ==
    /\ ledger_ops < MaxLedgerOps
    /\ LET out == add_item(inventory, item, q)
       IN  /\ inventory' = out.inventory
           /\ function_response' = out.ret
    /\ last_call' = [fn |-> "add_item", item_name |-> item, quantity |-> NumberOf(q)]
    /\ added' = [added EXCEPT ![item] = @ + NumberOf(q)]
    /\ only_positive' = (only_positive /\ NumberOf(q) > 0)
    /\ ledger_ops' = ledger_ops + 1
    /\ UNCHANGED <<removed, dialogueVars>>

CallRemoveItem(item, q) ==
    /\ ledger_ops < MaxLedgerOps
    /\ LET out == remove_item(inventory, item, q)
       IN  /\ inventory' = out.inventory
           /\ function_response' = out.ret
           /\ removed' = IF out.ret.status = "success"
                         THEN [removed EXCEPT ![item] = @ + NumberOf(q)]
                         ELSE removed
    /\ last_call' = [fn |-> "remove_item", item_name |-> item, quantity |-> NumberOf(q)]
    /\ only_positive' = (only_positive /\ NumberOf(q) > 0)
    /\ ledger_ops' = ledger_ops + 1
    /\ UNCHANGED <<added, dialogueVars>>

CallGetInventory ==
    /\ ledger_ops < MaxLedgerOps
    /\ LET out == get_inventory(inventory)
       IN  /\ inventory' = out.inventory
           /\ function_response' = out.ret
    /\ last_call' = [fn |-> "get_inventory", item_name |-> NoItem, quantity |-> 0]
    /\ ledger_ops' = ledger_ops + 1
    /\ UNCHANGED <<added, removed, only_positive, dialogueVars>>

NextLedger ==
    \/ \E item \in Items, q \in Quantities : CallAddItem(item, q)
    \/ \E item \in Items, q \in Quantities : CallRemoveItem(item, q)
    \/ CallGetInventory

SpecLedger == Init /\ [][NextLedger]_vars

----------------------------------------------------------------------------
(* Spec: main's loop, run_conversation and the executor.                    *)

\* What the user may type; EOF is ReadEOF.  "vyhod" stands for the Russian
\* exit keyword of line 253.
UserInputs == {"exit", "EXIT", "vyhod", "add 5 apples"}

\* str.lower() on the inputs above.
Lower(u) == IF u = "EXIT" THEN "exit" ELSE u

ExitKeywords == {"vyhod", "exit"}

\* Function names the backend may ask for: the three tools and one it made up.
ToolCallNames == AvailableFunctions \cup {"delete_item"}

\* Argument strings the backend may send with a call.
ToolCallArguments ==
    {ObjectArgs(Apples, JInt(n)) : n \in -1 .. 1}
    \cup {ObjectArgs(Pears, JInt(1)),
          ObjectArgs(Apples, JTrue),
          ObjectArgs(Apples, JStr("two")),
          ObjectArgs(JInt(5), JInt(1)),
          ObjectArgs(Apples, Missing),
          ObjectArgs(Missing, Missing),
          Arguments("object", Apples, JInt(1), TRUE),
          Arguments("array", Missing, Missing, FALSE),
          Arguments("invalid", Missing, Missing, FALSE),
          Arguments("deep", Missing, Missing, FALSE)}

\* message.content of a backend response.
ResponseContents == {"reply", "", NoneValue}

\* What client.chat.completions.create and reading its response may raise.
BackendErrors == {"APIError", "AuthenticationError", "IndexError"}

ConversationExceptClauses == <<"APIError", "AuthenticationError", "Exception">>

\* The string each except clause of run_conversation returns.
Apology(clause) ==
    CASE clause = "APIError"            -> "api_error_apology"
      [] clause = "AuthenticationError" -> "authentication_apology"
      [] OTHER                          -> "unexpected_error_apology"

\* Lines 211-219: an exception raised inside run_conversation's try block.
\* Every clause first prints with RED; [value, exc] is what the function
\* returns or the exception that leaves it.
HandleConversationError(exc) ==
    LET clause == FirstMatch(ConversationExceptClauses, exc)
    IN  IF clause = "" THEN [value |-> NoneValue, exc |-> exc]
        ELSE IF NameLookup("RED") # "" THEN [value |-> NoneValue, exc |-> NameLookup("RED")]
        ELSE [value |-> Apology(clause), exc |-> ""]

\* run_conversation ends: with a value returned to main, or with an
\* exception that main does not catch and that ends the process.
Leave(h) ==
    /\ tool_calls' = <<>>
    /\ tool_message' = NoToolMessage
    /\ executed' = 0
    /\ tool_call' = NoToolCall
    /\ call_log' = ""
    /\ IF h.exc = ""
       THEN /\ pc' = "return"
            /\ assistant_response' = h.value
            /\ exit_cause' = exit_cause
       ELSE /\ pc' = "stopped"
            /\ exit_cause' = h.exc
            /\ assistant_response' = assistant_response

\* A main whose trim also empties the ledger.
ReadInputResetting(user_input) ==
    /\ pc = "input"
    /\ IF Lower(user_input) \in ExitKeywords
       THEN /\ pc' = "stopped"
            /\ exit_cause' = "exit"
            /\ UNCHANGED <<inventory, messages, user_turns, backend_failure, backend_calls,
                           second_tool_calls>>
       ELSE /\ messages' = TrimHistory(Append(messages, UserMessage(user_turns + 1)))
            /\ inventory' = IF Len(messages) + 1 > MAX_HISTORY + 1 THEN EmptyDict ELSE inventory
            /\ user_turns' = user_turns + 1
            /\ backend_failure' = ""
            /\ backend_calls' = 0
            /\ second_tool_calls' = <<>>
            /\ pc' = "call1"
            /\ exit_cause' = exit_cause
    /\ UNCHANGED <<assistant_response, calls_made, tool_message, tool_calls,
                   executed, tool_call, call_log, ledgerTestVars>>

\* Lines 247-265: read a line; leave on an exit keyword, else append the
\* user message and trim the history.
ReadInput(user_input) ==
    /\ pc = "input"
    /\ IF Lower(user_input) \in ExitKeywords
       THEN /\ pc' = "stopped"
            /\ exit_cause' = "exit"
            /\ UNCHANGED <<messages, user_turns, backend_failure, backend_calls,
                           second_tool_calls>>
       ELSE /\ messages' = TrimHistory(Append(messages, UserMessage(user_turns + 1)))
            /\ user_turns' = user_turns + 1
            /\ backend_failure' = ""
            /\ backend_calls' = 0
            /\ second_tool_calls' = <<>>
            /\ pc' = "call1"
            /\ exit_cause' = exit_cause
    /\ UNCHANGED <<inventory, assistant_response, calls_made, tool_message, tool_calls,
                   executed, tool_call, call_log, ledgerTestVars>>

\* Lines 248-250: end of input.
ReadEOF ==
    /\ pc = "input"
    /\ pc' = "stopped"
    /\ exit_cause' = "eof"
    /\ UNCHANGED <<inventory, messages, assistant_response, backend_failure, user_turns,
                   calls_made, tool_message, tool_calls, executed, tool_call, call_log,
                   backend_calls, second_tool_calls, ledgerTestVars>>

\* Lines 181-188, 206-208: the first response carries no tool calls.
FirstCallText(content) ==
    /\ pc = "call1"
    /\ backend_calls' = backend_calls + 1
    /\ Leave([value |-> content, exc |-> ""])
    /\ UNCHANGED <<inventory, messages, backend_failure, user_turns, calls_made,
                   second_tool_calls, ledgerTestVars>>

\* Lines 181-193: the first response asks for the calls named in names; the
\* backend gives each a fresh id.  The response message is appended.
FirstCallTools(names) ==
    /\ pc = "call1"
    /\ tool_calls' = [i \in 1 .. Len(names) |-> [id |-> calls_made + i, name |-> names[i]]]
    /\ calls_made' = calls_made + Len(names)
    /\ messages' = Append(messages, AssistantToolCalls(tool_calls'))
    /\ executed' = 0
    /\ backend_calls' = backend_calls + 1
    /\ pc' = "exec"
    /\ UNCHANGED <<inventory, assistant_response, exit_cause, backend_failure, user_turns,
                   tool_message, tool_call, call_log, second_tool_calls, ledgerTestVars>>

\* A for-loop that takes the batch from its last call to its first.
ExecuteNextReversed(arguments) ==
    /\ pc = "exec"
    /\ executed < Len(tool_calls)
    /\ LET tc == tool_calls[Len(tool_calls) - executed]
           r == ExecuteToolCall(tc.id, tc.name, arguments, inventory, messages)
       IN  /\ inventory' = r.inventory
           /\ messages' = r.messages
           /\ IF r.exc = ""
              THEN /\ executed' = executed + 1
                   /\ tool_message' = FullToolMessage(tc.id, tc.name, r.content)
                   /\ tool_call' = [id |-> tc.id, name |-> tc.name, arguments |-> arguments]
                   /\ call_log' = r.log
                   /\ pc' = IF executed + 1 = Len(tool_calls) THEN "call2" ELSE "exec"
                   /\ UNCHANGED <<tool_calls, assistant_response, exit_cause>>
              ELSE Leave(HandleConversationError(r.exc))
    /\ UNCHANGED <<backend_failure, user_turns, calls_made, backend_calls, second_tool_calls,
                   ledgerTestVars>>

\* Lines 195-196: one pass of the for-loop, on the next call of the batch,
\* whose argument string is arguments.
ExecuteNext(arguments) ==
    /\ pc = "exec"
    /\ executed < Len(tool_calls)
    /\ LET tc == tool_calls[executed + 1]
           r == ExecuteToolCall(tc.id, tc.name, arguments, inventory, messages)
       IN  /\ inventory' = r.inventory
           /\ messages' = r.messages
           /\ IF r.exc = ""
              THEN /\ executed' = executed + 1
                   /\ tool_message' = FullToolMessage(tc.id, tc.name, r.content)
                   /\ tool_call' = [id |-> tc.id, name |-> tc.name, arguments |-> arguments]
                   /\ call_log' = r.log
                   /\ pc' = IF executed + 1 = Len(tool_calls) THEN "call2" ELSE "exec"
                   /\ UNCHANGED <<tool_calls, assistant_response, exit_cause>>
              ELSE Leave(HandleConversationError(r.exc))
    /\ UNCHANGED <<backend_failure, user_turns, calls_made, backend_calls, second_tool_calls,
                   ledgerTestVars>>

\* A run_conversation that takes the batch's messages back when the second
\* call fails.
BackendFailsRollingBack(exc) ==
    /\ pc \in {"call1", "call2"}
    /\ backend_failure' = exc
    /\ backend_calls' = backend_calls + 1
    /\ messages' = IF pc = "call2"
                   THEN SubSeq(messages, 1, Len(messages) - Len(tool_calls) - 1)
                   ELSE messages
    /\ Leave(HandleConversationError(exc))
    /\ UNCHANGED <<inventory, user_turns, calls_made, second_tool_calls, ledgerTestVars>>

\* Lines 181-187, 200-205 raising: the backend call fails.
BackendFails(exc) ==
    /\ pc \in {"call1", "call2"}
    /\ backend_failure' = exc
    /\ backend_calls' = backend_calls + 1
    /\ Leave(HandleConversationError(exc))
    /\ UNCHANGED <<inventory, messages, user_turns, calls_made, second_tool_calls,
                   ledgerTestVars>>

\* A run_conversation that executes the first tool call of the second response.
SecondCallTextExecuting(content, more) ==
    /\ pc = "call2"
    /\ backend_calls' = backend_calls + 1
    /\ second_tool_calls' = more
    /\ LET r == ExecuteToolCall(calls_made + 1, more[1], ObjectArgs(Apples, JInt(1)),
                                inventory, messages)
       IN  IF more = <<>>
           THEN UNCHANGED <<inventory, messages>>
           ELSE inventory' = r.inventory /\ messages' = r.messages
    /\ Leave([value |-> content, exc |-> ""])
    /\ UNCHANGED <<backend_failure, user_turns, calls_made, ledgerTestVars>>

\* Lines 200-205: the second response; its content is returned and any tool
\* calls it carries (more) are not looked at.
SecondCallText(content, more) ==
    /\ pc = "call2"
    /\ backend_calls' = backend_calls + 1
    /\ second_tool_calls' = more
    /\ Leave([value |-> content, exc |-> ""])
    /\ UNCHANGED <<inventory, messages, backend_failure, user_turns, calls_made,
                   ledgerTestVars>>

\* Lines 269-281: main prints the answer and appends it, or reports (with
\* RED) that there is none.
MainAnswer ==
    /\ pc = "return"
    /\ IF Truthy(assistant_response)
       THEN /\ messages' = Append(messages, AssistantText(assistant_response))
            /\ pc' = "input"
            /\ exit_cause' = exit_cause
       ELSE /\ messages' = messages
            /\ IF NameLookup("RED") = ""
               THEN pc' = "input" /\ exit_cause' = exit_cause
               ELSE pc' = "stopped" /\ exit_cause' = NameLookup("RED")
    /\ UNCHANGED <<inventory, assistant_response, backend_failure, user_turns, calls_made,
                   tool_message, tool_calls, executed, tool_call, call_log, backend_calls,
                   second_tool_calls, ledgerTestVars>>

\* The batches of at most n calls over the function names in names.
NameSeqs(names, n) == UNION {[1 .. k -> names] : k \in 1 .. n}

\* Tool calls a second response may carry.
SecondCallToolCalls == {<<>>, <<"add_item">>}

Next ==
    \/ \E u \in UserInputs :
          /\ Lower(u) \in ExitKeywords \/ user_turns < MaxUserTurns
          /\ ReadInput(u)
    \/ ReadEOF
    \/ \E c \in ResponseContents : FirstCallText(c)
    \/ \E names \in NameSeqs(ToolCallNames, MaxBatch) :
          /\ calls_made + Len(names) <= MaxCalls
          /\ FirstCallTools(names)
    \/ \E a \in ToolCallArguments : ExecuteNext(a)
    \/ \E e \in BackendErrors : BackendFails(e)
    \/ \E c \in ResponseContents, more \in SecondCallToolCalls : SecondCallText(c, more)
    \/ MainAnswer

Spec == Init /\ [][Next]_vars

----------------------------------------------------------------------------
(* SpecWindow: the same program over more user turns, so that the history  *)
(* outgrows MAX_HISTORY; the backend asks for well-formed calls only.      *)

WindowNames == AvailableFunctions
WindowArguments == {ObjectArgs(Apples, JInt(1)), ObjectArgs(Missing, Missing)}
WindowContents == {"reply", ""}

NextWindow ==
    \/ \E u \in UserInputs :
          /\ Lower(u) \in ExitKeywords \/ user_turns < WindowUserTurns
          /\ ReadInput(u)
    \/ ReadEOF
    \/ \E c \in WindowContents : FirstCallText(c)
    \/ \E names \in NameSeqs(WindowNames, WindowBatch) :
          /\ calls_made + Len(names) <= WindowCalls
          /\ FirstCallTools(names)
    \/ \E a \in WindowArguments : ExecuteNext(a)
    \/ \E e \in BackendErrors : BackendFails(e)
    \/ \E c \in WindowContents, more \in SecondCallToolCalls : SecondCallText(c, more)
    \/ MainAnswer

SpecWindow == Init /\ [][NextWindow]_vars

----------------------------------------------------------------------------
(* Claims *)

\* C1: every quantity stored in the ledger is >= 0, whatever add_item and
\* remove_item requests the backend issues through the executor.
C1_QuantitiesNonNegative ==
    \A k \in DOMAIN inventory : inventory[k] >= 0

\* C2: the ledger never holds an entry whose quantity is 0.
C2_NoZeroEntry ==
    \A k \in DOMAIN inventory : inventory[k] # 0

\* The i-th of the last n messages.
FromEnd(msgs, n, i) == msgs[Len(msgs) - n + i]

\* The transcript ends with the assistant message asking for calls, followed
\* by one tool message for each of the first n calls, in order, each with
\* the id and the name of its call.
EndsWithResults(msgs, calls, n) ==
    /\ Len(msgs) > n
    /\ msgs[Len(msgs) - n] = AssistantToolCalls(calls)
    /\ \A i \in 1 .. n :
          /\ FromEnd(msgs, n, i).role = "tool"
          /\ FromEnd(msgs, n, i).tool_call_id = calls[i].id
          /\ FromEnd(msgs, n, i).name = calls[i].name

\* C3: each request of a batch, well-formed or not, adds exactly one tool
\* message and the loop goes on to the next request; when the loop is over
\* the batch of n requests has its n tool messages.
C3_OneResultPerRequest ==
    /\ [](pc \in {"exec", "call2"} => EndsWithResults(messages, tool_calls, executed))
    /\ [](pc = "call2" => executed = Len(tool_calls))
    /\ [][pc = "exec" =>
            /\ pc' \in {"exec", "call2"}
            /\ executed' = executed + 1
            /\ Len(messages') = Len(messages) + 1
            /\ tool_calls' = tool_calls]_vars

\* C3 witness: a batch of two is done; the first request, for one of the
\* three tools, ended in an error result and the second one succeeded.
C3_Witness ==
    /\ pc = "call2"
    /\ Len(tool_calls) = 2
    /\ FromEnd(messages, 2, 1).content = "error"
    /\ FromEnd(messages, 2, 1).name \in AvailableFunctions
    /\ tool_message.content.status = "success"

\* Every tool message answers a call of the assistant message that opens
\* its group, and every such assistant message is followed by the results
\* of all its calls.
WellFormed(msgs) ==
    /\ \A i \in 1 .. Len(msgs) :
          msgs[i].role = "tool" =>
             \E j \in 1 .. i - 1 :
                /\ msgs[j].role = "assistant"
                /\ i - j <= Len(msgs[j].tool_calls)
                /\ msgs[j].tool_calls[i - j].id = msgs[i].tool_call_id
    /\ \A j \in 1 .. Len(msgs) :
          \A k \in 1 .. Len(msgs[j].tool_calls) :
             /\ j + k <= Len(msgs)
             /\ msgs[j + k].role = "tool"
             /\ msgs[j + k].tool_call_id = msgs[j].tool_calls[k].id

\* C4: whenever the transcript is sent on the first call of a user turn,
\* tool results and the request that asked for them are together.
C4_GroupsIntact ==
    pc = "call1" => WellFormed(messages)

\* C5 as stated: the transcript sent on the first call of a user turn has at
\* most max_turns = 10 messages, the system message included.
C5_AtMostTenTurns ==
    pc = "call1" => Len(messages) <= MAX_HISTORY

\* C5 amended: the transcript sent on the first call has at most
\* MAX_HISTORY + 1 messages; when the history with the new user message is
\* longer, main keeps message 0 and exactly the last MAX_HISTORY messages.
C5_WindowKeepsLastTen ==
    /\ [](pc = "call1" => Len(messages) <= MAX_HISTORY + 1 /\ messages[1] = SystemMessage)
    /\ [][pc = "input" /\ pc' = "call1" =>
            LET full == Append(messages, UserMessage(user_turns'))
            IN  IF Len(full) > MAX_HISTORY + 1
                THEN /\ Len(messages') = MAX_HISTORY + 1
                     /\ messages'[1] = messages[1]
                     /\ \A i \in 1 .. MAX_HISTORY :
                           messages'[1 + i] = full[Len(full) - MAX_HISTORY + i]
                ELSE messages' = full]_vars

\* C5 witness: a trimmed transcript is about to be sent; the first user
\* message has been dropped.
C5_Witness ==
    /\ pc = "call1"
    /\ Len(messages) = MAX_HISTORY + 1
    /\ \A i \in 1 .. Len(messages) : messages[i] # UserMessage(1)

\* C6: after a backend failure run_conversation has returned the apology of
\* that kind of failure; no exception has left it.
C6_FailureYieldsApology ==
    backend_failure # "" =>
       /\ exit_cause \in {"", "exit", "eof"}
       /\ assistant_response =
             (CASE backend_failure = "AuthenticationError" -> "authentication_apology"
                [] backend_failure = "APIError"            -> "api_error_apology"
                [] OTHER                                   -> "unexpected_error_apology")

\* C7: the process stops only on the exit keyword or at end of input.
C7_StopsOnlyOnExit ==
    pc = "stopped" => exit_cause \in {"exit", "eof"}

\* C8: after add and remove calls with q > 0 on the empty ledger, each
\* item's stored quantity (0 when absent) is what was added minus what the
\* successful removes took, and it is not negative.
C8_Balance ==
    only_positive =>
       \A item \in Items :
          /\ DictGet(inventory, item) = added[item] - removed[item]
          /\ DictGet(inventory, item) >= 0

\* C8 witness: apples were added and partly removed, some are left, and the
\* last call was a remove that failed.
C8_Witness ==
    /\ only_positive
    /\ removed[Apples] > 0
    /\ added[Apples] > removed[Apples]
    /\ last_call.fn = "remove_item"
    /\ function_response.status = "error"

\* A ledger function has just been called directly.
Called(fn) == ledger_ops' = ledger_ops + 1 /\ last_call'.fn = fn

\* C9: remove_item of more than a present item holds returns the
\* insufficient-quantity error with the stored quantity and changes nothing.
C9_InsufficientStock ==
    [][(/\ Called("remove_item")
        /\ last_call'.item_name \in DOMAIN inventory
        /\ last_call'.quantity > inventory[last_call'.item_name])
       => /\ function_response' =
                Payload("error", "insufficient", last_call'.item_name,
                        inventory[last_call'.item_name], EmptyDict)
          /\ inventory' = inventory]_vars

\* C9 witness: remove_item asked for more apples than the ledger holds,
\* with pears in the ledger too.
C9_Witness ==
    /\ last_call.fn = "remove_item"
    /\ last_call.item_name = Apples
    /\ DOMAIN inventory = {Apples, Pears}
    /\ last_call.quantity > inventory[Apples]
    /\ function_response.msg = "insufficient"
    /\ function_response.qty = inventory[Apples]

\* C10: remove_item of an item the ledger does not hold returns the
\* not-found error for every quantity, changes nothing and adds no entry.
C10_NotFound ==
    [][(/\ Called("remove_item")
        /\ last_call'.item_name \notin DOMAIN inventory)
       => /\ function_response' =
                Payload("error", "not_found", last_call'.item_name, 0, EmptyDict)
          /\ inventory' = inventory
          /\ last_call'.item_name \notin DOMAIN inventory']_vars

\* C10 witness: remove_item of pears from a ledger that holds apples only.
C10_Witness ==
    /\ last_call.fn = "remove_item"
    /\ last_call.item_name = Pears
    /\ DOMAIN inventory = {Apples}
    /\ function_response.msg = "not_found"


\* C11: remove_item of exactly the quantity stored succeeds and deletes the
\* entry: the item is not in the next snapshot and every other item keeps
\* its quantity.
C11_RemoveAllDeletesEntry ==
    [][(/\ Called("remove_item")
        /\ last_call'.item_name \in DOMAIN inventory
        /\ last_call'.quantity = inventory[last_call'.item_name])
       => /\ function_response'.status = "success"
          /\ function_response'.msg = "removed"
          /\ DOMAIN inventory' = DOMAIN inventory \ {last_call'.item_name}
          /\ last_call'.item_name \notin DOMAIN get_inventory(inventory').ret.inventory
          /\ \A other \in DOMAIN inventory' : inventory'[other] = inventory[other]]_vars

\* C11 witness: all the apples in stock were removed; pears are still there.
C11_Witness ==
    /\ last_call.fn = "remove_item"
    /\ last_call.item_name = Apples
    /\ last_call.quantity > 0
    /\ last_call.quantity = added[Apples] - (removed[Apples] - last_call.quantity)
    /\ function_response.msg = "removed"
    /\ DOMAIN inventory = {Pears}


\* A call of _execute_tool_call returned: the for-loop moved on by one call.
Executed == pc = "exec" /\ executed' = executed + 1

\* C12: a request for a known function whose parsed arguments do not match
\* the function's parameter schema yields the invalid-arguments error result
\* and leaves the ledger unchanged.
C12_SchemaMismatchRejected ==
    [][(/\ Executed
        /\ tool_call'.name \in AvailableFunctions
        /\ JsonLoads(tool_call'.arguments) = ""
        /\ ~MatchesSchema(tool_call'.name, tool_call'.arguments))
       => /\ tool_message'.content.status = "error"
          /\ tool_message'.content.msg = "bad_arguments"
          /\ inventory' = inventory]_vars

\* C13: a request whose name is not in available_functions yields the error
\* result that names the function, whatever its arguments are; no ledger
\* function runs and the ledger is unchanged.
C13_UnknownFunction ==
    [][(pc = "exec" /\ tool_calls[executed + 1].name \notin AvailableFunctions)
       => /\ executed' = executed + 1
          /\ tool_call'.name = tool_calls[executed + 1].name
          /\ tool_message'.content.status = "error"
          /\ tool_message'.content.msg = "unknown_function"
          /\ tool_message'.content.item = JStr(tool_call'.name)
          /\ tool_message'.name = tool_call'.name
          /\ call_log' = ""
          /\ inventory' = inventory]_vars

\* C13 witness: an unknown function was asked for with an argument string
\* that is not JSON, while the ledger holds stock.
C13_Witness ==
    /\ tool_call.name \notin AvailableFunctions
    /\ tool_call.name # ""
    /\ tool_call.arguments.parse = "invalid"
    /\ tool_message.content.msg = "unknown_function"
    /\ DOMAIN inventory # {}

C15_SnapshotReadOnly ==
    [][Called("get_inventory")
       => /\ inventory' = inventory
          /\ function_response'.status = "success"
          /\ (function_response'.msg = "empty_marker") <=> (DOMAIN inventory = {})
          /\ DOMAIN inventory # {}
                => /\ function_response'.msg = "inventory"
                   /\ function_response'.inventory = inventory]_vars

\* C15 witness: get_inventory returned a mapping with both items in it.
C15_Witness ==
    /\ last_call.fn = "get_inventory"
    /\ function_response.msg = "inventory"
    /\ DOMAIN function_response.inventory = Items
    /\ function_response.inventory = inventory


\* How many tool messages of msgs answer the call with this id.
ResultsFor(msgs, id) ==
    Cardinality({i \in 1 .. Len(msgs) : msgs[i].role = "tool" /\ msgs[i].tool_call_id = id})

\* C16: when the first response asks for calls, its message is appended
\* before anything is executed; the calls are then executed in the order
\* received, each exactly once, each appending one tool message tagged with
\* its own id and name; the second backend call is made only when the tool
\* message of the last call is in the transcript.
C16_BatchInOrder ==
    /\ [][(pc = "call1" /\ pc' = "exec")
          => /\ messages' = Append(messages, AssistantToolCalls(tool_calls'))
             /\ executed' = 0
             /\ tool_call' = NoToolCall
             /\ inventory' = inventory]_vars
    /\ [][Executed
          => /\ tool_call'.id = tool_calls[executed + 1].id
             /\ tool_call'.name = tool_calls[executed + 1].name
             /\ messages' = Append(messages,
                                   ToolMessage(tool_call'.id, tool_call'.name,
                                               tool_message'.content.status))]_vars
    /\ [](pc \in {"exec", "call2"}
          => \A i \in 1 .. Len(tool_calls) :
                ResultsFor(messages, tool_calls[i].id) = IF i <= executed THEN 1 ELSE 0)
    /\ [][backend_calls' = backend_calls + 1
          => /\ backend_calls = (IF pc = "call2" THEN 1 ELSE 0)
             /\ pc \in {"call1", "call2"}]_vars
    /\ [][(backend_calls = 1 /\ backend_calls' = 2)
          => /\ pc = "call2"
             /\ executed = Len(tool_calls)
             /\ messages[Len(messages)].role = "tool"
             /\ messages[Len(messages)].tool_call_id = tool_calls[Len(tool_calls)].id]_vars

\* C16 witness: a batch of two different functions was executed and the
\* second backend call has been made.
C16_Witness ==
    /\ backend_calls = 2
    /\ Len(messages) >= 4
    /\ FromEnd(messages, 2, 1).role = "tool"
    /\ FromEnd(messages, 2, 2).role = "tool"
    /\ FromEnd(messages, 2, 1).tool_call_id < FromEnd(messages, 2, 2).tool_call_id
    /\ FromEnd(messages, 2, 1).name # FromEnd(messages, 2, 2).name
    /\ FromEnd(messages, 3, 1).tool_calls # <<>>

\* C17: when the second backend call fails, the step that handles the
\* failure changes neither the ledger nor the transcript: the request
\* message and the tool messages of the batch are still its last messages,
\* also once the turn is over.
C17_NoRollback ==
    /\ [][(pc = "call2" /\ backend_failure' # "")
          => /\ inventory' = inventory
             /\ messages' = messages
             /\ EndsWithResults(messages', tool_calls, Len(tool_calls))]_vars
    /\ []((backend_failure # "" /\ backend_calls = 2)
          => /\ pc = "stopped"
             /\ messages[Len(messages)].role = "tool")

\* C17 witness: the second call failed after a batch that put stock in the
\* ledger; the stock and the batch's tool message are there.
C17_Witness ==
    /\ backend_failure # ""
    /\ backend_calls = 2
    /\ messages[Len(messages)].role = "tool"
    /\ messages[Len(messages)].content = "success"
    /\ DOMAIN inventory # {}

\* C18: the backend is called at most twice in a user turn; the step that
\* takes the second response ends run_conversation without touching the
\* ledger or the transcript and without issuing a call, whatever tool calls
\* that response carries.
C18_SecondResponseNotExecuted ==
    /\ [](backend_calls <= 2)
    /\ [][pc = "call2"
          => /\ pc' \in {"return", "stopped"}
             /\ inventory' = inventory
             /\ messages' = messages
             /\ calls_made' = calls_made
             /\ executed' = 0]_vars
    /\ []((pc = "return" /\ second_tool_calls # <<>>)
          => /\ messages[Len(messages)].role = "tool"
             /\ \A i \in 1 .. Len(messages) : messages[i].tool_call_id <= calls_made)

\* C18 witness: the second response carried a tool call and
\* run_conversation has returned.
C18_Witness ==
    /\ pc = "return"
    /\ backend_calls = 2
    /\ second_tool_calls # <<>>
    /\ DOMAIN inventory # {}

\* C19: the ledger changes only in a step of the executor that ran add_item
\* or remove_item; reading input (with its trim), either backend call, a
\* backend failure and main's handling of the answer leave it as it was.
C19_LedgerChangesOnlyInBatch ==
    [][inventory' # inventory
       => /\ pc = "exec"
          /\ tool_calls[executed + 1].name \in {"add_item", "remove_item"}
          /\ call_log' \in {"add_item", "remove_item"}]_vars

\* C19 witness: in a turn whose input made main trim the history the backend
\* answered with text, and the ledger holds stock.
C19_Witness ==
    /\ pc = "return"
    /\ backend_calls = 1
    /\ backend_failure = ""
    /\ Len(messages) = MAX_HISTORY + 1
    /\ messages[2] # UserMessage(1)
    /\ messages[Len(messages)].role = "user"
    /\ DOMAIN inventory # {}

\* C20: when run_conversation has returned, main appends the returned text
\* as an assistant message exactly when it is neither None nor empty;
\* otherwise the transcript stays as run_conversation left it.  The user
\* message of the turn is in the transcript either way.
C20_AnswerAppendedIffNonEmpty ==
    [][pc = "return"
       => /\ IF assistant_response \notin {"", NoneValue}
             THEN messages' = Append(messages, AssistantText(assistant_response))
             ELSE messages' = messages
          /\ \E i \in 1 .. Len(messages') : messages'[i] = UserMessage(user_turns)]_vars

\* C20 witness: the first turn's answer was appended; the second turn's
\* answer was empty and main left the transcript ending with the user message.
C20_Witness ==
    /\ exit_cause = "NameError"
    /\ backend_failure = ""
    /\ assistant_response \in {"", NoneValue}
    /\ Len(messages) = 4
    /\ messages[3] = AssistantText("reply")
    /\ messages[4] = UserMessage(2)

====
